---- MODULE Spec2Model ----
(***************************************************************************)
(* A model of lib/connectionConfig/iothubConnectionConfig.ts: the three    *)
(* functions of the IotHubConnectionConfig namespace (create, validate,    *)
(* convertToEventHubConnectionConfig) acting on one caller-owned           *)
(* descriptor object.                                                      *)
(*                                                                         *)
(* JavaScript values are records [t |-> <typeof tag>, v |-> <payload>].    *)
(* A string's payload is the sequence of its characters; a multi-character *)
(* literal of the source that is never taken apart ("HostName",            *)
(* "messages/events", "sb://") is one element of that sequence.  A         *)
(* number's payload is the sequence of its decimal digits, so that         *)
(* String(n) changes the type tag and keeps the text.                      *)
(***************************************************************************)
EXTENDS Integers, Sequences, FiniteSets

VARIABLES
    config,     \* the caller's descriptor object (or whatever it passes as one)
    origin,     \* "none" | "create" | "caller": where config came from
    op,         \* the last call: "none" | "create" | "supply" | "validate" | "convert"
    err,        \* the outcome of the last call: NoError or the error thrown
    before,     \* config as it was when the last call started
    prevValidated, \* the call before the last one was a validate that returned
    args,       \* the arguments of the last create call
    parsed,     \* what the tokenizer returned in the last create call, or NotParsed
    related     \* the record the last call handed to
                \* EventHubConnectionConfig.createFromConnectionConfig, or NoRelated

vars == <<config, origin, op, err, before, prevValidated, args, parsed, related>>

\* The number of Key=Value parts of a generated connection string.
MaxParts == 3

-----------------------------------------------------------------------------
(* JavaScript values *)

Undefined == [t |-> "undefined", v |-> <<>>]
Null == [t |-> "null", v |-> <<>>]
Str(s) == [t |-> "string", v |-> s]
Num(digits) == [t |-> "number", v |-> digits]
Obj(fields) == [t |-> "object", v |-> fields]

\* String(x)
ToString(x) ==
    CASE x.t = "string" -> Str(x.v)
      [] x.t = "number" -> Str(x.v)
      [] x.t = "undefined" -> Str(<<"undefined">>)
      [] x.t = "null" -> Str(<<"null">>)
      [] OTHER -> Str(<<"[object Object]">>)

\* JSON.stringify(x), used by a mutant only
Quote(x) ==
    IF x.t = "string" THEN Str(<<"\"">> \o x.v \o <<"\"">>) ELSE ToString(x)

\* !!x
Truthy(x) ==
    CASE x.t \in {"undefined", "null"} -> FALSE
      [] x.t = "string" -> x.v # <<>>
      [] x.t = "number" -> x.v # <<"0">>
      [] OTHER -> TRUE

\* x != undefined (loose inequality: null equals undefined)
LooseNotUndefined(x) == x.t \notin {"undefined", "null"}

\* s.indexOf(c), 1-based; 0 when c does not occur
IndexOf(s, c) ==
    IF \E i \in 1..Len(s) : s[i] = c
    THEN CHOOSE i \in 1..Len(s) : s[i] = c /\ \A j \in 1..(i - 1) : s[j] # c
    ELSE 0

\* s.split(sep): always at least one segment
RECURSIVE Split(_, _)
Split(s, sep) ==
    LET i == IndexOf(s, sep)
    IN  IF i = 0 THEN <<s>>
        ELSE <<SubSeq(s, 1, i - 1)>> \o Split(SubSeq(s, i + 1, Len(s)), sep)

-----------------------------------------------------------------------------
(* Errors *)

NoError == [kind |-> "none", param |-> ""]
MissingParameterError(name) == [kind |-> "MissingParameterError", param |-> name]
TypeMismatchError(name) == [kind |-> "TypeMismatchError", param |-> name]

\* throwTypeErrorIfParameterMissing throws for x
IsMissing(x) ==
    \/ x.t \in {"undefined", "null"}
    \/ (x.t = "string" /\ x.v = <<>>)

\* throwTypeErrorIfParameterTypeMismatch(name, x, "object") throws for x
IsNotObject(x) == x.t \notin {"object", "null"}

-----------------------------------------------------------------------------
(* The connection-string tokenizer *)

Keys == {"HostName", "SharedAccessKeyName", "SharedAccessKey", "DeviceId"}

NotParsed == [HostName |-> Null, SharedAccessKeyName |-> Null,
              SharedAccessKey |-> Null, DeviceId |-> Null]

EmptyModel == [k \in Keys |-> Undefined]

\* one part "Key=Value" added to the mapping; a later part overrides an earlier one
AddPart(acc, part) ==
    LET i == IndexOf(part, "=")
        key == SubSeq(part, 1, i - 1)
        value == SubSeq(part, i + 1, Len(part))
    IN  IF Len(key) = 1 /\ key[1] \in Keys
        THEN [acc EXCEPT ![key[1]] = Str(value)]
        ELSE acc

RECURSIVE Reduce(_, _)
Reduce(acc, parts) ==
    IF parts = <<>> THEN acc ELSE Reduce(AddPart(acc, Head(parts)), Tail(parts))

parseConnectionString(s) == Reduce(EmptyModel, Split(s, ";"))

-----------------------------------------------------------------------------
(* The operations.  Each returns what the call leaves behind: the error it *)
(* threw (NoError when it returned) and the values it produced.            *)

\* obj.f = x
SetField(obj, f, x) == Obj([obj.v EXCEPT ![f] = x])

\* create with the split of HostName left out
createUnsplitHost(connectionString, path) ==
    IF IsMissing(connectionString)
    THEN [err |-> MissingParameterError("connectionString"),
          ret |-> Undefined, parsed |-> NotParsed]
    ELSE LET cs == ToString(connectionString)
             parsedCS == parseConnectionString(cs.v)
             p == IF ~Truthy(path) THEN Str(<<"messages/events">>) ELSE path
         IN  [err |-> NoError,
              ret |-> Obj([connectionString |-> cs,
                           hostName |-> parsedCS.HostName,
                           host |-> IF Truthy(parsedCS.HostName)
                                    THEN parsedCS.HostName
                                    ELSE Str(<<>>),
                           entityPath |-> p,
                           sharedAccessKeyName |-> parsedCS.SharedAccessKeyName,
                           sharedAccessKey |-> parsedCS.SharedAccessKey,
                           deviceId |-> parsedCS.DeviceId]),
              parsed |-> parsedCS]

\* create with the default of path left out
createNoDefaultPath(connectionString, path) ==
    IF IsMissing(connectionString)
    THEN [err |-> MissingParameterError("connectionString"),
          ret |-> Undefined, parsed |-> NotParsed]
    ELSE LET cs == ToString(connectionString)
             parsedCS == parseConnectionString(cs.v)
         IN  [err |-> NoError,
              ret |-> Obj([connectionString |-> cs,
                           hostName |-> parsedCS.HostName,
                           host |-> IF Truthy(parsedCS.HostName)
                                    THEN Str(Split(parsedCS.HostName.v, ".")[1])
                                    ELSE Str(<<>>),
                           entityPath |-> path,
                           sharedAccessKeyName |-> parsedCS.SharedAccessKeyName,
                           sharedAccessKey |-> parsedCS.SharedAccessKey,
                           deviceId |-> parsedCS.DeviceId]),
              parsed |-> parsedCS]

\* create with the check of connectionString left out
createNoMissingCheck(connectionString, path) ==
    LET cs == ToString(connectionString)
        parsedCS == parseConnectionString(cs.v)
        p == IF ~Truthy(path) THEN Str(<<"messages/events">>) ELSE path
    IN  [err |-> NoError,
         ret |-> Obj([connectionString |-> cs,
                      hostName |-> parsedCS.HostName,
                      host |-> IF Truthy(parsedCS.HostName)
                               THEN Str(Split(parsedCS.HostName.v, ".")[1])
                               ELSE Str(<<>>),
                      entityPath |-> p,
                      sharedAccessKeyName |-> parsedCS.SharedAccessKeyName,
                      sharedAccessKey |-> parsedCS.SharedAccessKey,
                      deviceId |-> parsedCS.DeviceId]),
         parsed |-> parsedCS]

\* create with sharedAccessKey read from the key name (a copy-and-paste slip)
createSwappedKey(connectionString, path) ==
    IF IsMissing(connectionString)
    THEN [err |-> MissingParameterError("connectionString"),
          ret |-> Undefined, parsed |-> NotParsed]
    ELSE LET cs == ToString(connectionString)
             parsedCS == parseConnectionString(cs.v)
             p == IF ~Truthy(path) THEN Str(<<"messages/events">>) ELSE path
         IN  [err |-> NoError,
              ret |-> Obj([connectionString |-> cs,
                           hostName |-> parsedCS.HostName,
                           host |-> IF Truthy(parsedCS.HostName)
                                    THEN Str(Split(parsedCS.HostName.v, ".")[1])
                                    ELSE Str(<<>>),
                           entityPath |-> p,
                           sharedAccessKeyName |-> parsedCS.SharedAccessKeyName,
                           sharedAccessKey |-> parsedCS.SharedAccessKeyName,
                           deviceId |-> parsedCS.DeviceId]),
              parsed |-> parsedCS]

\* IotHubConnectionConfig.create(connectionString, path)
create(connectionString, path) ==
    IF IsMissing(connectionString)
    THEN [err |-> MissingParameterError("connectionString"),
          ret |-> Undefined, parsed |-> NotParsed]
    ELSE LET cs == ToString(connectionString)
             parsedCS == parseConnectionString(cs.v)
             p == IF ~Truthy(path) THEN Str(<<"messages/events">>) ELSE path
         IN  [err |-> NoError,
              ret |-> Obj([connectionString |-> cs,
                           hostName |-> parsedCS.HostName,
                           host |-> IF Truthy(parsedCS.HostName)
                                    THEN Str(Split(parsedCS.HostName.v, ".")[1])
                                    ELSE Str(<<>>),
                           entityPath |-> p,
                           sharedAccessKeyName |-> parsedCS.SharedAccessKeyName,
                           sharedAccessKey |-> parsedCS.SharedAccessKey,
                           deviceId |-> parsedCS.DeviceId]),
              parsed |-> parsedCS]

\* the two checks of the argument itself; r carries the object and the
\* error thrown so far, and a statement after a throw does nothing
checkConfig(c) ==
    IF IsMissing(c) THEN [config |-> c, err |-> MissingParameterError("config")]
    ELSE IF IsNotObject(c) THEN [config |-> c, err |-> TypeMismatchError("config")]
    ELSE [config |-> c, err |-> NoError]

\* throwTypeErrorIfParameterMissing(f, config[f]); config[f] = String(config[f])
requiredField(r, f) ==
    IF r.err # NoError THEN r
    ELSE IF IsMissing(r.config.v[f])
    THEN [config |-> r.config, err |-> MissingParameterError(f)]
    ELSE [config |-> SetField(r.config, f, ToString(r.config.v[f])), err |-> NoError]

\* the same with JSON.stringify in the place of String
requiredFieldQuoted(r, f) ==
    IF r.err # NoError THEN r
    ELSE IF IsMissing(r.config.v[f])
    THEN [config |-> r.config, err |-> MissingParameterError(f)]
    ELSE [config |-> SetField(r.config, f, Quote(r.config.v[f])), err |-> NoError]

\* if (config.deviceId != undefined) config.deviceId = String(config.deviceId)
optionalDeviceId(r) ==
    IF r.err # NoError THEN r
    ELSE IF LooseNotUndefined(r.config.v.deviceId)
    THEN [config |-> SetField(r.config, "deviceId", ToString(r.config.v.deviceId)),
          err |-> NoError]
    ELSE r

\* the same without the test
alwaysDeviceId(r) ==
    IF r.err # NoError THEN r
    ELSE [config |-> SetField(r.config, "deviceId", ToString(r.config.v.deviceId)),
          err |-> NoError]

\* validate checking entityPath before hostName
validateEntityPathFirst(c) ==
    optionalDeviceId(
      requiredField(
        requiredField(
          requiredField(
            requiredField(checkConfig(c), "entityPath"),
            "hostName"),
          "sharedAccessKeyName"),
        "sharedAccessKey"))

\* validate converting deviceId without looking at it
validateAlwaysDeviceId(c) ==
    alwaysDeviceId(
      requiredField(
        requiredField(
          requiredField(
            requiredField(checkConfig(c), "hostName"),
            "entityPath"),
          "sharedAccessKeyName"),
        "sharedAccessKey"))

\* validate converting hostName with JSON.stringify
validateQuoting(c) ==
    optionalDeviceId(
      requiredField(
        requiredField(
          requiredField(
            requiredFieldQuoted(checkConfig(c), "hostName"),
            "entityPath"),
          "sharedAccessKeyName"),
        "sharedAccessKey"))

\* IotHubConnectionConfig.validate(config)
validate(c) ==
    optionalDeviceId(
      requiredField(
        requiredField(
          requiredField(
            requiredField(checkConfig(c), "hostName"),
            "entityPath"),
          "sharedAccessKeyName"),
        "sharedAccessKey"))

\* the record convertToEventHubConnectionConfig builds from a validated
\* descriptor, with host taken from the descriptor's host
connectionConfigShortHost(c) ==
    [sharedAccessKey |-> c.v.sharedAccessKey,
     sharedAccessKeyName |-> c.v.sharedAccessKeyName,
     entityPath |-> c.v.entityPath,
     host |-> c.v.host,
     endpoint |-> Str(<<"sb://">> \o ToString(c.v.hostName).v \o <<"/">>),
     connectionString |-> c.v.connectionString]

\* the record convertToEventHubConnectionConfig builds from a validated descriptor
connectionConfig(c) ==
    [sharedAccessKey |-> c.v.sharedAccessKey,
     sharedAccessKeyName |-> c.v.sharedAccessKeyName,
     entityPath |-> c.v.entityPath,
     host |-> c.v.hostName,
     endpoint |-> Str(<<"sb://">> \o ToString(c.v.hostName).v \o <<"/">>),
     connectionString |-> c.v.connectionString]

NoRelated == [sharedAccessKey |-> Null, sharedAccessKeyName |-> Null,
              entityPath |-> Null, host |-> Null, endpoint |-> Null,
              connectionString |-> Null]

\* IotHubConnectionConfig.convertToEventHubConnectionConfig(iotHubConfig)
convertToEventHubConnectionConfig(c) ==
    IF IsMissing(c)
    THEN [config |-> c, err |-> MissingParameterError("iotHubConfig"),
          related |-> NoRelated]
    ELSE IF IsNotObject(c)
    THEN [config |-> c, err |-> TypeMismatchError("iotHubConfig"),
          related |-> NoRelated]
    ELSE LET r == validate(c)
         IN  IF r.err # NoError
             THEN [config |-> r.config, err |-> r.err, related |-> NoRelated]
             ELSE [config |-> r.config, err |-> NoError,
                   related |-> connectionConfig(r.config)]

-----------------------------------------------------------------------------
(* The arguments callers pass *)

\* the values a connection string gives each key
KeyValues ==
    [HostName |-> {<<>>, <<"a">>, <<".", "a">>, <<"a", ".", "b", ".", "c">>},
     SharedAccessKeyName |-> {<<>>, <<"k">>},
     SharedAccessKey |-> {<<>>, <<"s", "=">>},
     DeviceId |-> {<<"d">>}]

\* the parts of a connection string: Key=Value
Parts ==
    UNION {{<<k, "=">> \o val : val \in KeyValues[k]} : k \in Keys}

\* parts.join(";")
RECURSIVE Join(_)
Join(parts) ==
    IF parts = <<>> THEN <<>>
    ELSE IF Len(parts) = 1 THEN Head(parts)
    ELSE Head(parts) \o <<";">> \o Join(Tail(parts))

PartLists == UNION {[1..n -> Parts] : n \in 0..MaxParts}

ConnectionStrings ==
    {Str(Join(ps)) : ps \in PartLists} \cup {Undefined, Null, Num(<<"1">>)}

Paths == {Undefined, Null, Str(<<>>), Str(<<"custom/path">>)}

\* the objects a caller builds by hand and passes to validate or convert
SuppliedObjects ==
    {Obj(f) : f \in
        [hostName : {Undefined, Null, Str(<<>>), Str(<<"foo", ".", "bar">>), Num(<<"1">>)},
         host : {Str(<<"foo">>)},
         connectionString : {Undefined, Str(<<"cs">>), Num(<<"5">>)},
         entityPath : {Undefined, Str(<<"p">>), Num(<<"2">>)},
         sharedAccessKeyName : {Undefined, Str(<<"n">>), Num(<<"3">>)},
         sharedAccessKey : {Undefined, Str(<<"k">>)},
         deviceId : {Undefined, Null, Num(<<"7">>)}]}

\* what a caller may pass in the place of a descriptor
Supplied == SuppliedObjects \cup {Undefined, Null, Str(<<>>), Str(<<"x">>), Num(<<"1">>)}

-----------------------------------------------------------------------------
(* The state machine: a caller obtains one descriptor, from create or by   *)
(* building it, and then calls validate and convert on it in any order.    *)

Init ==
    /\ config = Undefined
    /\ origin = "none"
    /\ op = "none"
    /\ err = NoError
    /\ before = Undefined
    /\ prevValidated = FALSE
    /\ args = [connectionString |-> Undefined, path |-> Undefined]
    /\ parsed = NotParsed
    /\ related = NoRelated

\* config = IotHubConnectionConfig.create(cs, path)
Create ==
    /\ origin = "none"
    /\ \E cs \in ConnectionStrings, path \in Paths :
        LET r == create(cs, path)
        IN  /\ config' = r.ret
            /\ origin' = IF r.err = NoError THEN "create" ELSE "none"
            /\ err' = r.err
            /\ parsed' = r.parsed
            /\ args' = [connectionString |-> cs, path |-> path]
    /\ op' = "create"
    /\ before' = config
    /\ prevValidated' = FALSE
    /\ related' = NoRelated

\* the caller builds the argument itself
Supply ==
    /\ origin = "none"
    /\ \E d \in Supplied : config' = d
    /\ origin' = "caller"
    /\ op' = "supply"
    /\ err' = NoError
    /\ before' = config
    /\ prevValidated' = FALSE
    /\ related' = NoRelated
    /\ UNCHANGED <<args, parsed>>

\* IotHubConnectionConfig.validate(config)
Validate ==
    /\ origin # "none"
    /\ LET r == validate(config)
       IN  /\ config' = r.config
           /\ err' = r.err
    /\ op' = "validate"
    /\ before' = config
    /\ prevValidated' = (op = "validate" /\ err = NoError)
    /\ related' = NoRelated
    /\ UNCHANGED <<origin, args, parsed>>

\* IotHubConnectionConfig.convertToEventHubConnectionConfig(config)
Convert ==
    /\ origin # "none"
    /\ LET r == convertToEventHubConnectionConfig(config)
       IN  /\ config' = r.config
           /\ err' = r.err
           /\ related' = r.related
    /\ op' = "convert"
    /\ before' = config
    /\ prevValidated' = (op = "validate" /\ err = NoError)
    /\ UNCHANGED <<origin, args, parsed>>

Next ==
    \/ Create
    \/ Supply
    \/ Validate
    \/ Convert

Spec == Init /\ [][Next]_vars

-----------------------------------------------------------------------------
(* Properties *)

\* the required fields, in the order the documentation gives
Required == <<"hostName", "entityPath", "sharedAccessKeyName", "sharedAccessKey">>

\* a value is absent or empty: undefined, null or ""
Absent(x) == x = Undefined \/ x = Null \/ x = Str(<<>>)

\* h is the part of s before its first "." (all of s when s has none)
BeforeFirstDot(h, s) ==
    /\ Len(h) <= Len(s)
    /\ h = SubSeq(s, 1, Len(h))
    /\ \A i \in 1..Len(h) : h[i] # "."
    /\ (Len(h) = Len(s) \/ s[Len(h) + 1] = ".")

\* the first required field of object d that is absent, 0 when none is
FirstAbsent(d, order) ==
    IF \E i \in 1..Len(order) : Absent(d.v[order[i]])
    THEN CHOOSE i \in 1..Len(order) :
            /\ Absent(d.v[order[i]])
            /\ \A j \in 1..(i - 1) : ~Absent(d.v[order[j]])
    ELSE 0

\* C1: a descriptor returned by create has hostName equal to the parsed
\* HostName and host equal to the part of hostName before its first "."; when
\* HostName is absent or empty host is the empty string, and host is always a
\* string.
C1_HostIsFirstLabel ==
    (op = "create" /\ err = NoError) =>
        /\ config.v.hostName = parsed.HostName
        /\ config.v.host.t = "string"
        /\ IF Absent(parsed.HostName)
           THEN config.v.host = Str(<<>>)
           ELSE BeforeFirstDot(config.v.host.v, config.v.hostName.v)

C1_Witness ==
    /\ op = "create" /\ err = NoError
    /\ config.v.hostName = Str(<<"a", ".", "b", ".", "c">>)
    /\ config.v.host = Str(<<"a">>)

\* C2: a descriptor returned by create has entityPath equal to path when path
\* is truthy and to "messages/events" when path is undefined, null or empty;
\* entityPath is never empty.
C2_EntityPathDefaulted ==
    (op = "create" /\ err = NoError) =>
        /\ config.v.entityPath =
              IF Absent(args.path) THEN Str(<<"messages/events">>) ELSE args.path
        /\ ~Absent(config.v.entityPath)

C2_Witness ==
    /\ op = "create" /\ err = NoError
    /\ args.path = Null
    /\ config.v.entityPath = Str(<<"messages/events">>)

\* C3: validate on an object with a required field missing fails with
\* MissingParameterError for the first missing field in the order hostName,
\* entityPath, sharedAccessKeyName, sharedAccessKey.
C3_FirstMissingFieldWins ==
    (op = "validate" /\ before.t = "object" /\ FirstAbsent(before, Required) # 0) =>
        err = MissingParameterError(Required[FirstAbsent(before, Required)])

C3_Witness ==
    /\ op = "validate" /\ before.t = "object"
    /\ ~Absent(before.v.hostName)
    /\ Absent(before.v.entityPath)
    /\ Absent(before.v.sharedAccessKey)
    /\ err = MissingParameterError("entityPath")

\* C4: when validate, or convert through validate, fails, the descriptor holds
\* exactly the values it held before the call.
C4_FailureLeavesDescriptor ==
    (op \in {"validate", "convert"} /\ err # NoError) => config = before

\* C5: when convert succeeds, the record handed to the factory has endpoint
\* "sb://" + hostName + "/", host equal to the full hostName, and the other
\* fields equal to those of the validated descriptor.
C5_RelatedRecord ==
    (op = "convert" /\ err = NoError) =>
        /\ related.endpoint = Str(<<"sb://">> \o config.v.hostName.v \o <<"/">>)
        /\ related.host = config.v.hostName
        /\ related.host.v = before.v.hostName.v
        /\ related.sharedAccessKey = config.v.sharedAccessKey
        /\ related.sharedAccessKeyName = config.v.sharedAccessKeyName
        /\ related.entityPath = config.v.entityPath
        /\ related.connectionString = config.v.connectionString

C5_Witness ==
    /\ op = "convert" /\ err = NoError
    /\ config.v.hostName = Str(<<"foo", ".", "bar">>)
    /\ config.v.host = Str(<<"foo">>)
    /\ related.host = Str(<<"foo", ".", "bar">>)
    /\ related.endpoint = Str(<<"sb://", "foo", ".", "bar", "/">>)

\* C6: when convert succeeds, every field of the record handed to the factory
\* is present and a string.
C6_RelatedFieldsAreStrings ==
    (op = "convert" /\ err = NoError) =>
        \A f \in DOMAIN related : related[f].t = "string"

\* C7: when validate succeeds, the four required fields hold the string form
\* of what they held; deviceId holds the string form of what it held when it
\* was present and is untouched when it was absent; host and connectionString
\* are unchanged.
C7_ValidateCoercesInPlace ==
    (op = "validate" /\ err = NoError) =>
        /\ \A i \in 1..Len(Required) :
              config.v[Required[i]] = Str(before.v[Required[i]].v)
        /\ IF before.v.deviceId \in {Undefined, Null}
           THEN config.v.deviceId = before.v.deviceId
           ELSE config.v.deviceId = Str(before.v.deviceId.v)
        /\ config.v.host = before.v.host
        /\ config.v.connectionString = before.v.connectionString

C7_Witness ==
    /\ op = "validate" /\ err = NoError
    /\ before.v.hostName = Num(<<"1">>)
    /\ config.v.hostName = Str(<<"1">>)
    /\ before.v.deviceId = Undefined
    /\ config.v.deviceId = Undefined

\* C8: a validate that follows a successful validate of the same descriptor
\* succeeds and changes nothing.
C8_ValidateIdempotent ==
    (op = "validate" /\ prevValidated) => (err = NoError /\ config = before)

C8_Witness ==
    /\ op = "validate" /\ prevValidated /\ err = NoError
    /\ origin = "caller"
    /\ config.v.hostName = Str(<<"1">>)
    /\ config.v.deviceId = Str(<<"7">>)

\* C9: create with a connection string that is null, undefined or empty fails
\* with MissingParameterError, whatever path is; nothing is returned and the
\* tokenizer is not called.
C9_CreateRejectsMissing ==
    (op = "create" /\ Absent(args.connectionString)) =>
        /\ err = MissingParameterError("connectionString")
        /\ config = Undefined
        /\ origin = "none"
        /\ parsed = NotParsed

C9_Witness ==
    /\ op = "create"
    /\ args.connectionString = Str(<<>>)
    /\ args.path = Str(<<"custom/path">>)
    /\ err = MissingParameterError("connectionString")

\* the three keys validate depends on, with the field each fills
KeyFields == <<"hostName", "sharedAccessKeyName", "sharedAccessKey">>
KeyOf == [hostName |-> "HostName", sharedAccessKeyName |-> "SharedAccessKeyName",
          sharedAccessKey |-> "SharedAccessKey"]

\* the first of the three keys the connection string gave no value, 0 when none
FirstAbsentKey ==
    IF \E i \in 1..3 : Absent(parsed[KeyOf[KeyFields[i]]])
    THEN CHOOSE i \in 1..3 :
            /\ Absent(parsed[KeyOf[KeyFields[i]]])
            /\ \A j \in 1..(i - 1) : ~Absent(parsed[KeyOf[KeyFields[j]]])
    ELSE 0

\* C10: create succeeds for every connection string that is not missing;
\* validate on the descriptor it returned succeeds exactly when HostName,
\* SharedAccessKeyName and SharedAccessKey all had values, fails otherwise
\* for the first of them without one, and on success changes nothing.
C10_CreateThenValidate ==
    /\ (op = "create" /\ ~Absent(args.connectionString)) =>
          (err = NoError /\ config.t = "object")
    /\ (origin = "create" /\ op = "validate") =>
          /\ (err = NoError) <=> (FirstAbsentKey = 0)
          /\ (FirstAbsentKey # 0) =>
                err = MissingParameterError(KeyFields[FirstAbsentKey])
          /\ (err = NoError) => (config = before)

C10_Witness ==
    /\ origin = "create" /\ op = "validate" /\ err = NoError
    /\ args.path = Undefined
    /\ config.v.hostName = Str(<<"a", ".", "b", ".", "c">>)
    /\ config.v.sharedAccessKey = Str(<<"s", "=">>)
    /\ config.v.deviceId = Undefined

====
